---- MODULE Spec2Model ----
(***************************************************************************)
(* A model of the limit order book of src/ob.cpp: class Orderbook with its  *)
(* two price-level maps (bids_, asks_), its order index (orders_) and the   *)
(* public operations AddOrder, CancelOrder and MatchOrder (modify).         *)
(*                                                                         *)
(* A std::map is a function whose DOMAIN is the set of keys present; a      *)
(* std::list is a sequence; an Order is a record of its fields.  The index  *)
(* entry keeps the fields of *order_ that never change after construction   *)
(* (type, side, price); remainingQuantity_ is read by the code only through *)
(* the queue elements, where the model keeps it.  location_, the list       *)
(* iterator, denotes the queue node that holds the order of that id.        *)
(***************************************************************************)
EXTENDS Integers, Sequences, FiniteSets, TLC

\* Bounds of the model: the inputs the caller may pass.
MaxPrice == 2
MaxQuantity == 2
MaxOrderId == 3

\* The least quantity of the caller of Spec: quantities are positive, as
\* the driver draws them (qtyDist).  SpecMatching adds quantity 0.
MinQuantity == 1

\* Quantity is std::uint32_t.  The model counts quantities in units of
\* 2^UnitBits, a quarter of that type's range: quantity q of the model is
\* the value q * 2^UnitBits of the program.  The multiples of the unit are
\* closed under the program's arithmetic (min, -, + modulo 2^QuantityBits),
\* which on the model's numbers is arithmetic modulo QuantityRange.
QuantityBits == 32
UnitBits == QuantityBits - 2
QuantityRange == 2^(QuantityBits - UnitBits)

OrderType == {"GoodTillCancel", "FillAndKill"}
Side == {"Buy", "Sell"}
Price == 1..MaxPrice
Quantity == MinQuantity..MaxQuantity
OrderId == 1..MaxOrderId

VARIABLES bids_, asks_, orders_, trades, infos, call, outcome

vars == <<bids_, asks_, orders_, trades, infos, call, outcome>>

\* A faulty trade quantity: std::max where std::min is meant.
Max(a, b) == IF a >= b THEN a ELSE b

Min(a, b) == IF a <= b THEN a ELSE b

----------------------------------------------------------------------------
\* class Order

\* A faulty constructor, off by one: remainingQuantity_ starts one short.
OrderRemainingShort(orderType, orderId, side, price, quantity) ==
    [orderType_ |-> orderType, orderId_ |-> orderId, side_ |-> side,
     price_ |-> price, initialQuantity_ |-> quantity,
     remainingQuantity_ |-> IF quantity > 0 THEN quantity - 1 ELSE 0]

\* Order::Order: remainingQuantity_ starts at initialQuantity_.
Order(orderType, orderId, side, price, quantity) ==
    [orderType_ |-> orderType, orderId_ |-> orderId, side_ |-> side,
     price_ |-> price, initialQuantity_ |-> quantity,
     remainingQuantity_ |-> quantity]

GetFilledQuantity(order) == order.initialQuantity_ - order.remainingQuantity_

IsFilled(order) == order.remainingQuantity_ = 0

\* A faulty guard, off by one: it also refuses to fill all that remains.
FillThrowsOnAll(order, quantity) == quantity >= order.remainingQuantity_

\* Order::Fill throws std::logic_error when asked for more than remains.
FillThrows(order, quantity) == quantity > order.remainingQuantity_

\* A faulty Fill, off by one: it takes one more than asked.
FillTooMuch(order, quantity) ==
    [order EXCEPT !.remainingQuantity_ =
        IF quantity + 1 <= @ THEN @ - (quantity + 1) ELSE 0]

\* Order::Fill, when it does not throw.
Fill(order, quantity) ==
    [order EXCEPT !.remainingQuantity_ = @ - quantity]

\* OrderModify::ToOrderPointer: a fresh order with the request's id, side,
\* price and quantity and the type handed in.
ToOrderPointer(modify, type) ==
    Order(type, modify.orderId_, modify.side_, modify.price_, modify.quantity_)

\* struct TradeInfo, class Trade.
TradeInfo(orderId, price, quantity) ==
    [orderId_ |-> orderId, price_ |-> price, quantity_ |-> quantity]

\* A faulty Trade that reports one execution price, the ask's, on both
\* records.
TradeAtAskPrice(bidTrade, askTrade) ==
    [bidTrade_ |-> [bidTrade EXCEPT !.price_ = askTrade.price_],
     askTrade_ |-> askTrade]

\* A faulty Trade with its two records exchanged.
TradeSwapped(bidTrade, askTrade) ==
    [bidTrade_ |-> askTrade, askTrade_ |-> bidTrade]

Trade(bidTrade, askTrade) == [bidTrade_ |-> bidTrade, askTrade_ |-> askTrade]

----------------------------------------------------------------------------
\* std::map and std::list

EmptyMap == << >>

MapErase(m, k) == [x \in (DOMAIN m) \ {k} |-> m[x]]

MapPut(m, k, v) == [x \in (DOMAIN m) \cup {k} |-> IF x = k THEN v ELSE m[x]]

\* operator[]: the mapped list, an empty one when the key is absent.
MapGet(m, k) == IF k \in DOMAIN m THEN m[k] ELSE << >>

\* bids_.begin() under std::greater, asks_.begin() under std::less.
BestBid(bids) == CHOOSE p \in DOMAIN bids : \A q \in DOMAIN bids : q <= p

\* A faulty comparator for asks_ (std::greater): begin() is the highest ask.
BestAskHighest(asks) ==
    CHOOSE p \in DOMAIN asks : \A q \in DOMAIN asks : q <= p

BestAsk(asks) == CHOOSE p \in DOMAIN asks : \A q \in DOMAIN asks : p <= q

\* A faulty erase that drops the head of the list, whichever node is meant.
ListErasePopFront(orders, orderId) ==
    IF orders = << >> THEN << >> ELSE Tail(orders)

\* list::erase(location_): the list without the node of that order.
RECURSIVE ListErase(_, _)
ListErase(orders, orderId) ==
    IF orders = << >> THEN << >>
    ELSE IF Head(orders).orderId_ = orderId THEN Tail(orders)
    ELSE <<Head(orders)>> \o ListErase(Tail(orders), orderId)

----------------------------------------------------------------------------
\* class Orderbook.  A book value is [bids, asks, orders]; an operation
\* yields the book it leaves, the trades it returns, whether it read through
\* a reference to an element it had already erased (dangling), and the
\* exception it raised ("none" when it returned normally).

Book(bids, asks, orders) == [bids |-> bids, asks |-> asks, orders |-> orders]

Result(bids, asks, orders, trds, dangling, raised) ==
    [bids |-> bids, asks |-> asks, orders |-> orders, trades |-> trds,
     dangling |-> dangling, raised |-> raised]

\* struct OrderEntry{order_, location_}.
OrderEntry(order) ==
    [orderType_ |-> order.orderType_, side_ |-> order.side_,
     price_ |-> order.price_, location_ |-> order.orderId_]

\* orders_.contains(orderId)
Contains(orders, orderId) == orderId \in DOMAIN orders

\* A faulty erase that leaves the index entry behind.
OrdersEraseForgotten(orders, orderId) == orders

\* orders_.erase(orderId)
OrdersErase(orders, orderId) == MapErase(orders, orderId)

\* MatchOrders: if (bids.empty()) bids_.erase(bidIt), and the same for asks
EraseIfEmpty(levels, price) ==
    IF price \in DOMAIN levels /\ levels[price] = << >>
    THEN MapErase(levels, price) ELSE levels

\* A faulty CancelOrder that leaves the emptied level in the map.
KeepLevel(levels, price) == levels

\* CancelOrder: if (orders.empty()) asks_.erase(price) / bids_.erase(price)
EraseLevelIfEmpty(levels, price) ==
    IF price \in DOMAIN levels /\ levels[price] = << >>
    THEN MapErase(levels, price) ELSE levels

\* A faulty insertion at the head of the list.
PushFront(orders, order) == <<order>> \o orders

\* orders.push_back(order)
PushBack(orders, order) == Append(orders, order)

\* A faulty CanMatch with the two comparisons the wrong way round.
CanMatchSwapped(b, side, price) ==
    IF side = "Buy"
    THEN IF DOMAIN b.asks = {} THEN FALSE ELSE price <= BestAsk(b.asks)
    ELSE IF DOMAIN b.bids = {} THEN FALSE ELSE price >= BestBid(b.bids)

\* Orderbook::CanMatch
CanMatch(b, side, price) ==
    IF side = "Buy"
    THEN IF DOMAIN b.asks = {} THEN FALSE ELSE price >= BestAsk(b.asks)
    ELSE IF DOMAIN b.bids = {} THEN FALSE ELSE price <= BestBid(b.bids)

\* A faulty break that also stops at equal prices.
NoCrossOrEqual(bidPrice, askPrice) == bidPrice <= askPrice

\* if (bidIt->first < askIt->first) break;
NoCross(bidPrice, askPrice) == bidPrice < askPrice

\* One iteration of the inner loop of MatchOrders (lines 157-177) on the two
\* best levels' lists, both with an order.  m is [bids, asks: the two lists;
\* orders; trades; dangling; raised].
MatchOne(m) ==
      LET bid == Head(m.bids)
          ask == Head(m.asks)
          quantity == Min(bid.remainingQuantity_, ask.remainingQuantity_)
      IN
      IF FillThrows(bid, quantity) THEN [m EXCEPT !.raised = "logic_error"]
      ELSE
        LET bidF == Fill(bid, quantity) IN
        IF FillThrows(ask, quantity)
        THEN [m EXCEPT !.bids = <<bidF>> \o Tail(m.bids),
                       !.raised = "logic_error"]
        ELSE
          LET askF == Fill(ask, quantity)
              trade == Trade(TradeInfo(bidF.orderId_, bidF.price_, quantity),
                             TradeInfo(askF.orderId_, askF.price_, quantity))
              \* bids.pop_front(); orders_.erase(bid->GetOrderId()): bid is
              \* read after the node it refers to is gone.
              bids1 == IF IsFilled(bidF) THEN Tail(m.bids)
                       ELSE <<bidF>> \o Tail(m.bids)
              orders1 == IF IsFilled(bidF)
                         THEN OrdersErase(m.orders, bidF.orderId_)
                         ELSE m.orders
              asks1 == IF IsFilled(askF) THEN Tail(m.asks)
                       ELSE <<askF>> \o Tail(m.asks)
              orders2 == IF IsFilled(askF)
                         THEN OrdersErase(orders1, askF.orderId_)
                         ELSE orders1
          IN [bids |-> bids1, asks |-> asks1, orders |-> orders2,
              trades |-> Append(m.trades, trade),
              dangling |-> m.dangling \/ IsFilled(bidF) \/ IsFilled(askF),
              raised |-> "none"]

\* The inner loop of MatchOrders: while (!bids.empty() && !asks.empty()).
RECURSIVE MatchLevel(_)
MatchLevel(m) ==
    IF m.bids = << >> \/ m.asks = << >> \/ m.raised # "none" THEN m
    ELSE MatchLevel(MatchOne(m))

\* Orderbook::MatchOrders, r a Result in progress.
RECURSIVE MatchOrders(_)
MatchOrders(r) ==
    IF DOMAIN r.bids = {} \/ DOMAIN r.asks = {} \/ r.raised # "none" THEN r
    ELSE
      LET bidPrice == BestBid(r.bids)
          askPrice == BestAsk(r.asks)
      IN
      IF NoCross(bidPrice, askPrice) THEN r
      ELSE
        LET m == MatchLevel([bids |-> r.bids[bidPrice],
                             asks |-> r.asks[askPrice],
                             orders |-> r.orders, trades |-> r.trades,
                             dangling |-> r.dangling, raised |-> "none"])
            bids1 == MapPut(r.bids, bidPrice, m.bids)
            asks1 == MapPut(r.asks, askPrice, m.asks)
        IN
        IF m.raised # "none"
        THEN Result(bids1, asks1, m.orders, m.trades, m.dangling, m.raised)
        ELSE MatchOrders(Result(EraseIfEmpty(bids1, bidPrice),
                                EraseIfEmpty(asks1, askPrice),
                                m.orders, m.trades, m.dangling, "none"))

\* The loop conditions of MatchOrders (lines 147 and 151): both sides hold
\* orders and the best bid is not below the best ask.
Crossing(bids, asks) ==
    /\ DOMAIN bids # {}
    /\ DOMAIN asks # {}
    /\ ~NoCross(BestBid(bids), BestAsk(asks))

\* MatchOrders from a crossing book, for one iteration of its inner loop;
\* the iteration that empties a list is followed by lines 180-181.
MatchOrdersStep(r) ==
    LET bidPrice == BestBid(r.bids)
        askPrice == BestAsk(r.asks)
        m == MatchOne([bids |-> r.bids[bidPrice], asks |-> r.asks[askPrice],
                       orders |-> r.orders, trades |-> r.trades,
                       dangling |-> r.dangling, raised |-> "none"])
        bids1 == MapPut(r.bids, bidPrice, m.bids)
        asks1 == MapPut(r.asks, askPrice, m.asks)
    IN
    IF m.raised # "none"
    THEN Result(bids1, asks1, m.orders, m.trades, m.dangling, m.raised)
    ELSE Result(EraseIfEmpty(bids1, bidPrice), EraseIfEmpty(asks1, askPrice),
                m.orders, m.trades, m.dangling, "none")

\* AddOrder, lines 194-206: the order goes to the tail of its level's list
\* (operator[] creates the level) and into the index.
Insert(b, order) ==
    LET price == order.price_ IN
    IF order.side_ = "Buy"
    THEN Book(MapPut(b.bids, price, PushBack(MapGet(b.bids, price), order)),
              b.asks,
              MapPut(b.orders, order.orderId_, OrderEntry(order)))
    ELSE Book(b.bids,
              MapPut(b.asks, price, PushBack(MapGet(b.asks, price), order)),
              MapPut(b.orders, order.orderId_, OrderEntry(order)))

Rejected(b) == Result(b.bids, b.asks, b.orders, << >>, FALSE, "none")

\* A faulty AddOrder without the duplicate check of line 189.
AddOrderNoDuplicateCheck(b, order) ==
    IF order.orderType_ = "FillAndKill"
       /\ ~CanMatch(b, order.side_, order.price_)
    THEN Rejected(b)
    ELSE LET i == Insert(b, order)
         IN MatchOrders(Result(i.bids, i.asks, i.orders, << >>, FALSE, "none"))

\* Orderbook::AddOrder
AddOrder(b, order) ==
    IF Contains(b.orders, order.orderId_) THEN Rejected(b)
    ELSE IF order.orderType_ = "FillAndKill"
            /\ ~CanMatch(b, order.side_, order.price_)
    THEN Rejected(b)
    ELSE LET i == Insert(b, order)
         IN MatchOrders(Result(i.bids, i.asks, i.orders, << >>, FALSE, "none"))

\* CancelOrder, lines 213-225, for an id the index holds.  order and
\* iterator are references into the index entry that line 214 erases; every
\* later use of them reads through a dangling reference.  levels.at(price)
\* throws std::out_of_range when the level is absent.
CancelIndexed(b, orderId) ==
    LET entry == b.orders[orderId]
        orders == OrdersErase(b.orders, orderId)
        price == entry.price_
    IN
    IF entry.side_ = "Sell"
    THEN IF price \notin DOMAIN b.asks
         THEN Result(b.bids, b.asks, orders, << >>, TRUE, "out_of_range")
         ELSE Result(b.bids,
                     EraseLevelIfEmpty(MapPut(b.asks, price,
                                         ListErase(b.asks[price],
                                                   entry.location_)), price),
                     orders, << >>, TRUE, "none")
    ELSE IF price \notin DOMAIN b.bids
         THEN Result(b.bids, b.asks, orders, << >>, TRUE, "out_of_range")
         ELSE Result(EraseLevelIfEmpty(MapPut(b.bids, price,
                                         ListErase(b.bids[price],
                                                   entry.location_)), price),
                     b.asks, orders, << >>, TRUE, "none")

\* A faulty CancelOrder that, for an id it does not know, cancels another.
CancelOrderFirstResting(b, orderId) ==
    IF DOMAIN b.orders = {} THEN Rejected(b)
    ELSE CancelIndexed(b, IF Contains(b.orders, orderId) THEN orderId
                          ELSE CHOOSE i \in DOMAIN b.orders : TRUE)

\* Orderbook::CancelOrder
CancelOrder(b, orderId) ==
    IF ~Contains(b.orders, orderId) THEN Rejected(b)
    ELSE CancelIndexed(b, orderId)

\* class OrderModify
OrderModify(orderId, side, price, quantity) ==
    [orderId_ |-> orderId, side_ |-> side, price_ |-> price,
     quantity_ |-> quantity]

\* A faulty MatchOrder that submits the new order without the cancel.
MatchOrderWithoutCancel(b, modify) ==
    IF ~Contains(b.orders, modify.orderId_) THEN Rejected(b)
    ELSE AddOrder(b, ToOrderPointer(modify,
                                    b.orders[modify.orderId_].orderType_))

\* A faulty MatchOrder: when side and price stay the same it rewrites the
\* order where it sits instead of cancelling and adding it again.
MatchOrderInPlace(b, modify) ==
    IF ~Contains(b.orders, modify.orderId_) THEN Rejected(b)
    ELSE
      LET existing == b.orders[modify.orderId_]
          order == ToOrderPointer(modify, existing.orderType_)
          levels == IF modify.side_ = "Buy" THEN b.bids ELSE b.asks
          c == CancelOrder(b, modify.orderId_)
          a == AddOrder(Book(c.bids, c.asks, c.orders), order)
      IN
      IF /\ existing.side_ = modify.side_
         /\ existing.price_ = modify.price_
         /\ modify.price_ \in DOMAIN levels
      THEN LET rewritten ==
                  MapPut(levels, modify.price_,
                         [i \in 1..Len(levels[modify.price_]) |->
                             IF levels[modify.price_][i].orderId_ =
                                   modify.orderId_
                             THEN order ELSE levels[modify.price_][i]])
           IN Result(IF modify.side_ = "Buy" THEN rewritten ELSE b.bids,
                     IF modify.side_ = "Buy" THEN b.asks ELSE rewritten,
                     b.orders, << >>, FALSE, "none")
      ELSE IF c.raised # "none" THEN c
      ELSE Result(a.bids, a.asks, a.orders, a.trades, TRUE, a.raised)

\* Orderbook::MatchOrder (the modify operation).  existingOrder refers into
\* the index entry and to the Order that CancelOrder releases; its type is
\* read after both are gone.
MatchOrder(b, modify) ==
    IF ~Contains(b.orders, modify.orderId_) THEN Rejected(b)
    ELSE
      LET existingType == b.orders[modify.orderId_].orderType_
          c == CancelOrder(b, modify.orderId_)
      IN
      IF c.raised # "none" THEN c
      ELSE LET a == AddOrder(Book(c.bids, c.asks, c.orders),
                             ToOrderPointer(modify, existingType))
           IN Result(a.bids, a.asks, a.orders, a.trades, TRUE, a.raised)

\* Orderbook::Size
Size(b) == Cardinality(DOMAIN b.orders)

LevelInfo(price, quantity) == [price_ |-> price, quantity_ |-> quantity]

OrderbookLevelInfos(bids, asks) == [bids_ |-> bids, asks_ |-> asks]

\* std::accumulate over the queue from Quantity(0): the sum is a Quantity,
\* so every addition is modulo the range of the type.
RECURSIVE Accumulate(_, _)
Accumulate(orders, sum) ==
    IF orders = << >> THEN sum
    ELSE Accumulate(Tail(orders),
                    (sum + Head(orders).remainingQuantity_) % QuantityRange)

\* The lambda CreateLevelInfo of GetOrderInfos.
CreateLevelInfo(price, orders) == LevelInfo(price, Accumulate(orders, 0))

\* The loop over bids_, from begin(): the highest price first.
RECURSIVE BidInfos(_)
BidInfos(bids) ==
    IF DOMAIN bids = {} THEN << >>
    ELSE <<CreateLevelInfo(BestBid(bids), bids[BestBid(bids)])>>
         \o BidInfos(MapErase(bids, BestBid(bids)))

\* The loop over asks_, from begin(): the lowest price first.
RECURSIVE AskInfos(_)
AskInfos(asks) ==
    IF DOMAIN asks = {} THEN << >>
    ELSE <<CreateLevelInfo(BestAsk(asks), asks[BestAsk(asks)])>>
         \o AskInfos(MapErase(asks, BestAsk(asks)))

\* Orderbook::GetOrderInfos
GetOrderInfos(b) == OrderbookLevelInfos(BidInfos(b.bids), AskInfos(b.asks))

----------------------------------------------------------------------------
\* The program: a caller that invokes the public operations one at a time.
\* call records the last invocation (its operation, the order's type and id,
\* and known: whether the index held the id on entry) and outcome how it
\* ended: "returned", an exception that nothing catches, or "fault" when a
\* read through a dangling reference did not find the erased element's
\* bytes intact.  The process ends on anything but "returned".  infos is
\* the snapshot the last GetOrderInfos returned, empty after any other
\* operation.

Current == Book(bids_, asks_, orders_)

Call(op, orderType, orderId) ==
    [op |-> op, orderType_ |-> orderType, orderId_ |-> orderId,
     known |-> Contains(orders_, orderId)]

\* Reading an erased element either still finds its bytes (stale) or faults.
UseAfterFree(r) == IF r.dangling THEN {"stale", "fault"} ELSE {"stale"}

NoInfos == OrderbookLevelInfos(<< >>, << >>)

Finish(c, r, read) ==
    /\ call' = c
    /\ infos' = NoInfos
    /\ IF read = "fault"
       THEN /\ outcome' = "fault"
            /\ trades' = << >>
            /\ UNCHANGED <<bids_, asks_, orders_>>
       ELSE /\ outcome' = IF r.raised = "none" THEN "returned" ELSE r.raised
            /\ trades' = r.trades
            /\ bids_' = r.bids
            /\ asks_' = r.asks
            /\ orders_' = r.orders

Init ==
    /\ bids_ = EmptyMap
    /\ asks_ = EmptyMap
    /\ orders_ = EmptyMap
    /\ trades = << >>
    /\ infos = NoInfos
    /\ call = [op |-> "Orderbook", orderType_ |-> "GoodTillCancel",
               orderId_ |-> 1, known |-> FALSE]
    /\ outcome = "returned"

AddOrderCall ==
    /\ outcome = "returned"
    /\ \E orderType \in OrderType, orderId \in OrderId, side \in Side,
          price \in Price, quantity \in Quantity :
         \E r \in {AddOrder(Current,
                           Order(orderType, orderId, side, price, quantity))} :
            \E read \in UseAfterFree(r) :
              Finish(Call("AddOrder", orderType, orderId), r, read)

CancelOrderCall ==
    /\ outcome = "returned"
    /\ \E orderId \in OrderId :
         \E r \in {CancelOrder(Current, orderId)} :
            \E read \in UseAfterFree(r) :
              Finish(Call("CancelOrder", "GoodTillCancel", orderId), r, read)

MatchOrderCall ==
    /\ outcome = "returned"
    /\ \E orderId \in OrderId, side \in Side, price \in Price,
          quantity \in Quantity :
         \E r \in {MatchOrder(Current,
                             OrderModify(orderId, side, price, quantity))} :
            \E read \in UseAfterFree(r) :
              Finish(Call("MatchOrder",
                          IF Contains(orders_, orderId)
                          THEN orders_[orderId].orderType_
                          ELSE "GoodTillCancel",
                          orderId), r, read)

\* GetOrderInfos is const: it returns the snapshot and writes nothing.
GetOrderInfosCall ==
    /\ outcome = "returned"
    /\ call' = [op |-> "GetOrderInfos", orderType_ |-> "GoodTillCancel",
                orderId_ |-> 1, known |-> FALSE]
    /\ infos' = GetOrderInfos(Current)
    /\ trades' = << >>
    /\ UNCHANGED <<bids_, asks_, orders_, outcome>>

Next ==
    \/ AddOrderCall
    \/ CancelOrderCall
    \/ MatchOrderCall
    \/ GetOrderInfosCall

Spec == Init /\ [][Next]_vars

----------------------------------------------------------------------------
\* What the properties below speak of.

Returned(op) == call.op = op /\ outcome = "returned"

\* The orders of all the lists of one side.
Resting(levels) ==
    UNION {{levels[p][i] : i \in 1..Len(levels[p])} : p \in DOMAIN levels}

\* The places <<side, price, position>> where an order sits.
Slots(bids, asks) ==
    UNION {{<<"Buy", p, i>> : i \in 1..Len(bids[p])} : p \in DOMAIN bids}
    \cup UNION {{<<"Sell", p, i>> : i \in 1..Len(asks[p])} : p \in DOMAIN asks}

SlotOrder(bids, asks, slot) ==
    IF slot[1] = "Buy" THEN bids[slot[2]][slot[3]] ELSE asks[slot[2]][slot[3]]

SlotsOf(bids, asks, orderId) ==
    {slot \in Slots(bids, asks) :
        SlotOrder(bids, asks, slot).orderId_ = orderId}

----------------------------------------------------------------------------
\* C1: when AddOrder has returned (called directly or by MatchOrder) the book
\* is not crossed: every resting bid is priced strictly below every resting
\* ask, which includes the case of an empty side.
C1_BookNotCrossed ==
    (Returned("AddOrder") \/ Returned("MatchOrder")) =>
        \A bid \in Resting(bids_), ask \in Resting(asks_) :
            bid.price_ < ask.price_

\* An AddOrder that traded and left orders on both sides.
C1_Witness ==
    /\ Returned("AddOrder")
    /\ trades # << >>
    /\ Resting(bids_) # {}
    /\ Resting(asks_) # {}

\* C2: no FillAndKill order rests: between operations no queue and no index
\* entry holds an order of type FillAndKill, whether it was unmatched, fully
\* filled or partially filled on entry.
C2_FillAndKillNeverRests ==
    /\ \A order \in Resting(bids_) \cup Resting(asks_) :
          order.orderType_ # "FillAndKill"
    /\ \A orderId \in DOMAIN orders_ :
          orders_[orderId].orderType_ # "FillAndKill"

\* C3: an id is a key of the index exactly when an order of that id sits in
\* the book, and then it sits once, on the side and at the price the index
\* and the order itself give; Size() is the number of orders in all queues.
C3_IndexConsistent ==
    /\ \A orderId \in OrderId :
          LET slots == SlotsOf(bids_, asks_, orderId) IN
          IF orderId \in DOMAIN orders_
          THEN /\ Cardinality(slots) = 1
               /\ \A slot \in slots :
                    LET order == SlotOrder(bids_, asks_, slot) IN
                    /\ slot[1] = orders_[orderId].side_
                    /\ slot[2] = orders_[orderId].price_
                    /\ order.side_ = slot[1]
                    /\ order.price_ = slot[2]
          ELSE slots = {}
    /\ Size(Current) = Cardinality(Slots(bids_, asks_))

\* Two orders rest after a call whose matching erased a filled order.
C3_Witness ==
    /\ outcome = "returned"
    /\ call.op \in {"AddOrder", "MatchOrder"}
    /\ trades # << >>
    /\ Size(Current) = 2

----------------------------------------------------------------------------
\* The inputs of the operations, and what an operation does to one level.

Orders == {Order(orderType, orderId, side, price, quantity) :
              orderType \in OrderType, orderId \in OrderId, side \in Side,
              price \in Price, quantity \in Quantity}

Modifies == {OrderModify(orderId, side, price, quantity) :
                orderId \in OrderId, side \in Side, price \in Price,
                quantity \in Quantity}

Level(b, side, price) ==
    IF side = "Buy" THEN MapGet(b.bids, price) ELSE MapGet(b.asks, price)

TradeSide(trade, side) ==
    IF side = "Buy" THEN trade.bidTrade_ ELSE trade.askTrade_

TradedIds(trds, side) ==
    {TradeSide(trds[i], side).orderId_ : i \in 1..Len(trds)}

\* The quantity the trades give to the order of that id on that side.
RECURSIVE FilledOn(_, _, _)
FilledOn(trds, side, orderId) ==
    IF trds = << >> THEN 0
    ELSE (IF TradeSide(Head(trds), side).orderId_ = orderId
          THEN TradeSide(Head(trds), side).quantity_ ELSE 0)
         + FilledOn(Tail(trds), side, orderId)

Ids(queue) == {queue[i].orderId_ : i \in 1..Len(queue)}

Position(queue, orderId) ==
    CHOOSE i \in 1..Len(queue) : queue[i].orderId_ = orderId

\* after is the order before, with no more remaining than it had.
HeadReduced(before, after) ==
    /\ after.remainingQuantity_ <= before.remainingQuantity_
    /\ after = [before EXCEPT
                  !.remainingQuantity_ = after.remainingQuantity_]

\* post is what is left of the queue arrived when orders were taken from
\* its head only: a suffix of it, all but its first order untouched.
IsRemainder(arrived, post) ==
    /\ Len(post) <= Len(arrived)
    /\ LET k == Len(arrived) - Len(post) IN
       \A i \in 1..Len(post) :
          IF i = 1 THEN HeadReduced(arrived[k + 1], post[1])
          ELSE post[i] = arrived[k + i]

\* The trades name the orders of the queue in the order of the queue.
InArrivalOrder(arrived, trds, side) ==
    \A i, j \in 1..Len(trds) :
       LET a == TradeSide(trds[i], side).orderId_
           c == TradeSide(trds[j], side).orderId_
       IN (i < j /\ a \in Ids(arrived) /\ c \in Ids(arrived))
             => Position(arrived, a) <= Position(arrived, c)

\* From book b, submitting order left r: at every level the queue is the
\* one before, the new order at its tail if it went in, consumed from the
\* head; no order behind a resting head has traded.
PriorityKept(b, order, r) ==
    \A side \in Side, price \in Price :
       LET pre == Level(b, side, price)
           post == Level(r, side, price)
           arrivals == {pre} \cup
                       (IF order.side_ = side /\ order.price_ = price
                        THEN {Append(pre, order)} ELSE {})
       IN /\ \E arrived \in arrivals :
                /\ IsRemainder(arrived, post)
                /\ InArrivalOrder(arrived, r.trades, side)
                /\ \A i \in 1..(Len(arrived) - Len(post)) :
                      arrived[i].orderId_ \in TradedIds(r.trades, side)
          /\ \A i \in 2..Len(post) :
                post[i].orderId_ \notin TradedIds(r.trades, side)

\* C4: price-time priority within a level.  From every reachable book,
\* AddOrder of any order, and MatchOrder of any resting id (taken as the
\* cancel it starts with and the new arrival), leave each queue in arrival
\* order with fills taken from its head only; CancelOrder takes out its
\* order and keeps the others in order.
C4_PriceTimePriority ==
    /\ \A order \in Orders :
          PriorityKept(Current, order, AddOrder(Current, order))
    /\ \A modify \in Modifies :
          Contains(orders_, modify.orderId_) =>
             LET c == CancelOrder(Current, modify.orderId_)
             IN PriorityKept(Book(c.bids, c.asks, c.orders),
                             ToOrderPointer(modify,
                                 orders_[modify.orderId_].orderType_),
                             MatchOrder(Current, modify))
    /\ \A orderId \in DOMAIN orders_ :
          LET r == CancelOrder(Current, orderId) IN
          \A side \in Side, price \in Price :
             Level(r, side, price) =
                SelectSeq(Level(Current, side, price),
                          LAMBDA o : o.orderId_ # orderId)

\* A sell has filled the head of a bid queue whose next order still rests.
C4_Witness ==
    /\ Returned("AddOrder")
    /\ \E i \in 1..Len(trades), p \in DOMAIN bids_ :
          /\ trades[i].askTrade_.orderId_ = call.orderId_
          /\ trades[i].bidTrade_.price_ = p
          /\ trades[i].bidTrade_.orderId_ \notin Ids(bids_[p])
          /\ bids_[p] # << >>

\* From book b, submitting order left r: each trade has one quantity on
\* both records; every order resting in b, and the new one, is given no
\* more than it had remaining, keeps the rest if it still rests, and leaves
\* the book only filled (or, the new one, without a trade).
Conserved(b, order, r) ==
    /\ \A i \in 1..Len(r.trades) :
          r.trades[i].bidTrade_.quantity_ = r.trades[i].askTrade_.quantity_
    /\ \A o \in Resting(b.bids) \cup Resting(b.asks) \cup
                (IF Contains(b.orders, order.orderId_) THEN {} ELSE {order}) :
          LET filled == FilledOn(r.trades, o.side_, o.orderId_)
              after == {x \in Resting(r.bids) \cup Resting(r.asks) :
                           x.orderId_ = o.orderId_}
          IN /\ filled <= o.remainingQuantity_
             /\ \A x \in after :
                   /\ x.initialQuantity_ = o.initialQuantity_
                   /\ x.remainingQuantity_ = o.remainingQuantity_ - filled
             /\ after = {} =>
                   \/ filled = o.remainingQuantity_
                   \/ o = order /\ r.trades = << >>

\* C5: conservation.  Every trade carries one executed quantity on its two
\* records, and for every order initial = remaining + the sum of its fills:
\* resting orders have 0 <= remaining <= initial, and every AddOrder and
\* MatchOrder lowers an order's remaining by exactly what its trades give it.
C5_Conservation ==
    /\ \A o \in Resting(bids_) \cup Resting(asks_) :
          /\ o.remainingQuantity_ <= o.initialQuantity_
          /\ GetFilledQuantity(o) >= 0
    /\ \A i \in 1..Len(trades) :
          trades[i].bidTrade_.quantity_ = trades[i].askTrade_.quantity_
    /\ \A order \in Orders :
          Conserved(Current, order, AddOrder(Current, order))
    /\ \A modify \in Modifies :
          Contains(orders_, modify.orderId_) =>
             LET c == CancelOrder(Current, modify.orderId_)
             IN Conserved(Book(c.bids, c.asks, c.orders),
                          ToOrderPointer(modify,
                              orders_[modify.orderId_].orderType_),
                          MatchOrder(Current, modify))

\* A trade has left an order resting with part of its quantity filled.
C5_Witness ==
    /\ Returned("AddOrder")
    /\ trades # << >>
    /\ \E o \in Resting(bids_) \cup Resting(asks_) :
          /\ 0 < o.remainingQuantity_
          /\ o.remainingQuantity_ < o.initialQuantity_

\* r returned normally, with no trade and the book b as it was.
NoOp(b, r) ==
    /\ r.raised = "none"
    /\ r.trades = << >>
    /\ r.bids = b.bids
    /\ r.asks = b.asks
    /\ r.orders = b.orders

\* C6: CancelOrder of an id the index does not hold raises nothing and
\* leaves bids, asks and the index as they were; and after any CancelOrder
\* that id is not in the index, so a second CancelOrder of it changes
\* nothing.
C6_IdempotentCancel ==
    /\ \A orderId \in OrderId \ DOMAIN orders_ :
          LET r == CancelOrder(Current, orderId)
          IN NoOp(Current, r) /\ ~r.dangling
    /\ \A orderId \in OrderId :
          LET once == CancelOrder(Current, orderId)
              twice == CancelOrder(Book(once.bids, once.asks, once.orders),
                                   orderId)
          IN /\ ~Contains(once.orders, orderId)
             /\ NoOp(once, twice)
    /\ Returned("CancelOrder") => ~Contains(orders_, call.orderId_)

\* CancelOrder of an id not in the index has returned, with orders resting.
C6_Witness ==
    /\ Returned("CancelOrder")
    /\ ~call.known
    /\ DOMAIN orders_ # {}

\* C7: AddOrder of an order whose id is in the index returns no trade and
\* leaves bids, asks and the index as they were, whatever the order's type,
\* side, price and quantity.
C7_DuplicateIdIsNoOp ==
    \A order \in Orders :
       Contains(orders_, order.orderId_) =>
          NoOp(Current, AddOrder(Current, order))

\* AddOrder has returned for an id that was resting, submitted with the
\* other type.
C7_Witness ==
    /\ Returned("AddOrder")
    /\ call.known
    /\ Contains(orders_, call.orderId_)
    /\ orders_[call.orderId_].orderType_ # call.orderType_

\* The order cannot cross at once: a Buy with no ask resting or priced below
\* every ask, a Sell with no bid resting or priced above every bid.
CannotCross(order) ==
    IF order.side_ = "Buy"
    THEN \A ask \in Resting(asks_) : order.price_ < ask.price_
    ELSE \A bid \in Resting(bids_) : order.price_ > bid.price_

\* C8: AddOrder of a FillAndKill order of a fresh id that cannot cross at
\* once returns no trade, leaves bids, asks and the index as they were, and
\* its id does not enter the index.
C8_UnmatchableFillAndKillDiscarded ==
    \A order \in Orders :
       (/\ order.orderType_ = "FillAndKill"
        /\ ~Contains(orders_, order.orderId_)
        /\ CannotCross(order)) =>
          LET r == AddOrder(Current, order)
          IN NoOp(Current, r) /\ ~Contains(r.orders, order.orderId_)

\* A FillAndKill order of a fresh id has been turned away from a book that
\* holds orders.
C8_Witness ==
    /\ Returned("AddOrder")
    /\ call.orderType_ = "FillAndKill"
    /\ ~call.known
    /\ trades = << >>
    /\ ~Contains(orders_, call.orderId_)
    /\ DOMAIN orders_ # {}

\* C9: every price that is a key of bids_ or asks_ has a non-empty queue,
\* whose orders are of that side and carry that price, and the level the
\* index gives for an id is a key of that side's map.
C9_NoEmptyLevels ==
    /\ \A p \in DOMAIN bids_ :
          /\ bids_[p] # << >>
          /\ \A i \in 1..Len(bids_[p]) :
                bids_[p][i].price_ = p /\ bids_[p][i].side_ = "Buy"
    /\ \A p \in DOMAIN asks_ :
          /\ asks_[p] # << >>
          /\ \A i \in 1..Len(asks_[p]) :
                asks_[p][i].price_ = p /\ asks_[p][i].side_ = "Sell"
    /\ \A orderId \in DOMAIN orders_ :
          orders_[orderId].price_ \in
             DOMAIN (IF orders_[orderId].side_ = "Buy" THEN bids_ ELSE asks_)

\* CancelOrder has taken the last order of the book, and no level is left.
C9_Witness ==
    /\ Returned("CancelOrder")
    /\ call.known
    /\ DOMAIN bids_ = {}
    /\ DOMAIN asks_ = {}

\* C10: for an id in the index, MatchOrder gives the trades and the book of
\* CancelOrder of that id followed by AddOrder of a new order of the replaced
\* order's type with the id, side, price and quantity of the request.
C10_ModifyIsCancelThenAdd ==
    \A modify \in Modifies :
       Contains(orders_, modify.orderId_) =>
          LET m == MatchOrder(Current, modify)
              c == CancelOrder(Current, modify.orderId_)
              a == AddOrder(Book(c.bids, c.asks, c.orders),
                            Order(orders_[modify.orderId_].orderType_,
                                  modify.orderId_, modify.side_,
                                  modify.price_, modify.quantity_))
          IN /\ m.raised = a.raised
             /\ m.trades = a.trades
             /\ m.bids = a.bids
             /\ m.asks = a.asks
             /\ m.orders = a.orders

\* MatchOrder of a resting order has returned with trades.
C10_Witness ==
    /\ Returned("MatchOrder")
    /\ call.known
    /\ trades # << >>

----------------------------------------------------------------------------
\* C11: a modify loses queue priority.  For every id in the index, if the
\* order MatchOrder puts in its place rests, it is the last of the queue of
\* its side and price and sits nowhere else, also when the request keeps
\* side and price and changes the quantity only.
C11_ModifyLosesPriority ==
    /\ \A modify \in Modifies :
          Contains(orders_, modify.orderId_) =>
             LET r == MatchOrder(Current, modify)
                 queue == Level(r, modify.side_, modify.price_)
             IN Contains(r.orders, modify.orderId_) =>
                   /\ queue # << >>
                   /\ queue[Len(queue)].orderId_ = modify.orderId_
                   /\ queue[Len(queue)].initialQuantity_ = modify.quantity_
                   /\ SlotsOf(r.bids, r.asks, modify.orderId_) =
                         {<<modify.side_, modify.price_, Len(queue)>>}
    /\ (Returned("MatchOrder") /\ call.known
           /\ Contains(orders_, call.orderId_)) =>
          LET queue == Level(Current, orders_[call.orderId_].side_,
                             orders_[call.orderId_].price_)
          IN /\ queue # << >>
             /\ queue[Len(queue)].orderId_ = call.orderId_

\* MatchOrder of a resting order has returned without a trade, and the
\* order rests behind another one.
C11_Witness ==
    /\ Returned("MatchOrder")
    /\ call.known
    /\ trades = << >>
    /\ Contains(orders_, call.orderId_)
    /\ LET queue == Level(Current, orders_[call.orderId_].side_,
                          orders_[call.orderId_].price_)
       IN /\ Len(queue) >= 2
          /\ queue[Len(queue)].orderId_ = call.orderId_

----------------------------------------------------------------------------
\* Price p is strictly better than price q on that side.
Better(side, p, q) == IF side = "Buy" THEN p > q ELSE p < q

\* The orders that can trade when order is submitted to book b.
Participants(b, order) ==
    Resting(b.bids) \cup Resting(b.asks) \cup
    (IF Contains(b.orders, order.orderId_) THEN {} ELSE {order})

\* From book b, submitting order gave trades trds: when a trade fills an
\* order, every order of its side at a strictly better price has already
\* been filled to nothing; the prices of the resting side's records go from
\* best to worse; and each trade fills one of its two orders completely,
\* so a level is never shared out in proportion.
BestPriceFirst(b, order, trds) ==
    /\ \A i \in 1..Len(trds), side \in Side :
          LET record == TradeSide(trds[i], side)
              earlier == SubSeq(trds, 1, i - 1)
          IN \A o \in Participants(b, order) :
                (o.side_ = side /\ Better(side, o.price_, record.price_)) =>
                   FilledOn(earlier, side, o.orderId_) = o.remainingQuantity_
    /\ \A i, j \in 1..Len(trds), side \in Side :
          i < j => ~Better(side, TradeSide(trds[j], side).price_,
                                 TradeSide(trds[i], side).price_)
    /\ \A i \in 1..Len(trds) :
          \E side \in Side, o \in Participants(b, order) :
             /\ o.side_ = side
             /\ o.orderId_ = TradeSide(trds[i], side).orderId_
             /\ FilledOn(SubSeq(trds, 1, i), side, o.orderId_) =
                   o.remainingQuantity_

\* C12: price priority across levels.  Within one AddOrder (called directly
\* or by MatchOrder) the opposing levels are taken best price first: no
\* order is filled while an order of its side at a strictly better price
\* still has quantity remaining, and every trade exhausts one of its two
\* orders.
C12_PricePriorityAcrossLevels ==
    /\ \A order \in Orders :
          BestPriceFirst(Current, order, AddOrder(Current, order).trades)
    /\ \A modify \in Modifies :
          Contains(orders_, modify.orderId_) =>
             LET c == CancelOrder(Current, modify.orderId_)
             IN BestPriceFirst(Book(c.bids, c.asks, c.orders),
                               ToOrderPointer(modify,
                                   orders_[modify.orderId_].orderType_),
                               MatchOrder(Current, modify).trades)

\* A buy has traded with asks at two prices, the lower one first.
C12_Witness ==
    /\ Returned("AddOrder")
    /\ Len(trades) = 2
    /\ trades[1].bidTrade_.orderId_ = call.orderId_
    /\ trades[2].bidTrade_.orderId_ = call.orderId_
    /\ trades[1].askTrade_.price_ < trades[2].askTrade_.price_

----------------------------------------------------------------------------
\* The record of that side names an order of that side that could trade
\* and carries that order's own limit price.
OwnRecord(b, order, trade, side) ==
    \E o \in Participants(b, order) :
       /\ o.side_ = side
       /\ o.orderId_ = TradeSide(trade, side).orderId_
       /\ o.price_ = TradeSide(trade, side).price_

\* From book b, submitting order gave trades trds: both records of every
\* trade are the own records of a Buy and of a Sell order, so the two
\* prices differ exactly when the limit prices of the two orders differ.
OwnPrices(b, order, trds) ==
    \A i \in 1..Len(trds) :
       /\ OwnRecord(b, order, trds[i], "Buy")
       /\ OwnRecord(b, order, trds[i], "Sell")
       /\ \A bid, ask \in Participants(b, order) :
             (/\ bid.side_ = "Buy"
              /\ ask.side_ = "Sell"
              /\ bid.orderId_ = trds[i].bidTrade_.orderId_
              /\ ask.orderId_ = trds[i].askTrade_.orderId_) =>
                ((trds[i].bidTrade_.price_ # trds[i].askTrade_.price_)
                    <=> (bid.price_ # ask.price_))

\* C13: trade price reporting.  In every trade of AddOrder and MatchOrder
\* the bid record carries the id and the limit price of the Buy order, the
\* ask record those of the Sell order; there is no single execution price,
\* and the two prices differ exactly when the two limit prices differ.
C13_TradeCarriesOwnPrices ==
    /\ \A order \in Orders :
          OwnPrices(Current, order, AddOrder(Current, order).trades)
    /\ \A modify \in Modifies :
          Contains(orders_, modify.orderId_) =>
             LET c == CancelOrder(Current, modify.orderId_)
             IN OwnPrices(Book(c.bids, c.asks, c.orders),
                          ToOrderPointer(modify,
                              orders_[modify.orderId_].orderType_),
                          MatchOrder(Current, modify).trades)

\* A trade between a bid and a lower ask has been returned, each record
\* with its own price.
C13_Witness ==
    /\ outcome = "returned"
    /\ call.op \in {"AddOrder", "MatchOrder"}
    /\ \E i \in 1..Len(trades) :
          trades[i].bidTrade_.price_ > trades[i].askTrade_.price_

----------------------------------------------------------------------------
\* The sum of the remaining quantities of a queue, as a number.
RECURSIVE Total(_)
Total(queue) ==
    IF queue = << >> THEN 0
    ELSE Head(queue).remainingQuantity_ + Total(Tail(queue))

\* infos lists the levels of that side once each, the prices going strictly
\* down (Buy) or up (Sell), each with the total remaining at its level.
Snapshot(levelInfos, levels, side) ==
    /\ Len(levelInfos) = Cardinality(DOMAIN levels)
    /\ {levelInfos[i].price_ : i \in 1..Len(levelInfos)} = DOMAIN levels
    /\ \A i, j \in 1..Len(levelInfos) :
          i < j => Better(side, levelInfos[i].price_, levelInfos[j].price_)
    /\ \A i \in 1..Len(levelInfos) :
          levelInfos[i].quantity_ = Total(Level(Current, side,
                                                levelInfos[i].price_))

\* C14: when GetOrderInfos has returned, its bids are one (price, total)
\* per occupied bid level in strictly descending price, its asks one per
\* occupied ask level in strictly ascending price, each total the sum of
\* the remaining quantities of the orders resting at that level; the book
\* is the one the call found.
C14_LevelSnapshot ==
    Returned("GetOrderInfos") =>
       /\ Snapshot(infos.bids_, bids_, "Buy")
       /\ Snapshot(infos.asks_, asks_, "Sell")

----------------------------------------------------------------------------
\* C15: the frame of CancelOrder.  For every id in the index, CancelOrder
\* returns no trade and raises nothing, takes that id out of the index and
\* that one order out of its queue, and leaves every other order with its
\* side, price, remaining quantity and place relative to the others; the
\* other side's map is untouched and Size() is one less.
C15_CancelFrame ==
    /\ \A orderId \in DOMAIN orders_ :
          LET r == CancelOrder(Current, orderId)
              gone == {o \in Resting(bids_) \cup Resting(asks_) :
                          o.orderId_ = orderId}
          IN /\ r.raised = "none"
             /\ r.trades = << >>
             /\ DOMAIN r.orders = DOMAIN orders_ \ {orderId}
             /\ \A other \in DOMAIN r.orders : r.orders[other] = orders_[other]
             /\ Size(r) = Size(Current) - 1
             /\ Cardinality(gone) = 1
             /\ Resting(r.bids) \cup Resting(r.asks) =
                   (Resting(bids_) \cup Resting(asks_)) \ gone
             /\ IF orders_[orderId].side_ = "Buy"
                THEN r.asks = asks_ ELSE r.bids = bids_
             /\ \A side \in Side, price \in Price :
                   Level(r, side, price) =
                      SelectSeq(Level(Current, side, price),
                                LAMBDA o : o.orderId_ # orderId)
    /\ (Returned("CancelOrder") /\ call.known) =>
          /\ trades = << >>
          /\ SlotsOf(bids_, asks_, call.orderId_) = {}

\* CancelOrder has taken a resting order out of a queue in which another
\* order stays, the other side holding orders too.
C15_Witness ==
    /\ Returned("CancelOrder")
    /\ call.known
    /\ \E side \in Side, price \in Price :
          /\ Len(Level(Current, side, price)) >= 1
          /\ call.orderId_ \notin Ids(Level(Current, side, price))
    /\ Resting(bids_) # {}
    /\ Resting(asks_) # {}

----------------------------------------------------------------------------
\* From book b, submitting order left r: an order that could trade and whose
\* fills add up to all it had remaining is in no queue and not in the index.
FilledGone(b, order, r) ==
    \A o \in Participants(b, order) :
       FilledOn(r.trades, o.side_, o.orderId_) = o.remainingQuantity_ =>
          /\ ~Contains(r.orders, o.orderId_)
          /\ SlotsOf(r.bids, r.asks, o.orderId_) = {}

\* C16: filled orders never rest.  With every quantity submitted or
\* modified above zero, every resting order has 0 < remaining <= initial,
\* and an order that AddOrder or MatchOrder fills to nothing leaves its
\* queue and the index within that call.
C16_FilledOrdersNeverRest ==
    /\ \A o \in Resting(bids_) \cup Resting(asks_) :
          /\ 0 < o.remainingQuantity_
          /\ o.remainingQuantity_ <= o.initialQuantity_
    /\ \A order \in Orders :
          FilledGone(Current, order, AddOrder(Current, order))
    /\ \A modify \in Modifies :
          Contains(orders_, modify.orderId_) =>
             LET c == CancelOrder(Current, modify.orderId_)
             IN FilledGone(Book(c.bids, c.asks, c.orders),
                           ToOrderPointer(modify,
                               orders_[modify.orderId_].orderType_),
                           MatchOrder(Current, modify))

\* A trade has filled a resting order to nothing and a partly filled order
\* rests: the one is gone from the index, the other is in it.
C16_Witness ==
    /\ Returned("AddOrder")
    /\ \E i \in 1..Len(trades) :
          /\ trades[i].bidTrade_.orderId_ # call.orderId_
          /\ ~Contains(orders_, trades[i].bidTrade_.orderId_)
    /\ \E o \in Resting(asks_) :
          /\ o.orderId_ = call.orderId_
          /\ o.remainingQuantity_ < o.initialQuantity_

----------------------------------------------------------------------------
\* C17: add then cancel is a round trip.  AddOrder of a GoodTillCancel
\* order of a fresh id that cannot cross rests it without a trade, and
\* CancelOrder of that id then gives back the bids, the asks, the index
\* and Size() of before, also when the order had opened a new level.
C17_AddThenCancelRestores ==
    \A order \in Orders :
       (/\ order.orderType_ = "GoodTillCancel"
        /\ ~Contains(orders_, order.orderId_)
        /\ CannotCross(order)) =>
          LET a == AddOrder(Current, order)
              c == CancelOrder(Book(a.bids, a.asks, a.orders),
                               order.orderId_)
          IN /\ a.raised = "none"
             /\ a.trades = << >>
             /\ Contains(a.orders, order.orderId_)
             /\ Size(a) = Size(Current) + 1
             /\ NoOp(Current, c)
             /\ Size(c) = Size(Current)

\* A GoodTillCancel order of a fresh id rests, untraded and alone at its
\* price, in a book that holds other orders; it can now be cancelled.
C17_Witness ==
    /\ Returned("AddOrder")
    /\ call.orderType_ = "GoodTillCancel"
    /\ ~call.known
    /\ trades = << >>
    /\ Contains(orders_, call.orderId_)
    /\ Ids(Level(Current, orders_[call.orderId_].side_,
                 orders_[call.orderId_].price_)) = {call.orderId_}
    /\ Size(Current) >= 2

----------------------------------------------------------------------------
\* What is left of the order of that id in book r, 0 when it does not rest.
RestingRemaining(r, orderId) ==
    LET rest == {o \in Resting(r.bids) \cup Resting(r.asks) :
                    o.orderId_ = orderId}
    IN IF rest = {} THEN 0 ELSE (CHOOSE o \in rest : TRUE).remainingQuantity_

\* C18: accounting of a GoodTillCancel order.  For AddOrder of a
\* GoodTillCancel order of a fresh id and quantity q > 0, the quantities of
\* the returned trades plus what the order rests with make q; it rests
\* exactly when the trades make less than q; and every order that was
\* resting keeps its initial quantity less all its fills.  So Buy 2 at a
\* price followed by Sell 1 at that price leaves one bid level with 1 and
\* no ask.
C18_GoodTillCancelAccounting ==
    /\ \A order \in Orders :
          (/\ order.orderType_ = "GoodTillCancel"
           /\ ~Contains(orders_, order.orderId_)
           /\ order.initialQuantity_ > 0) =>
             LET r == AddOrder(Current, order)
                 traded == FilledOn(r.trades, order.side_, order.orderId_)
             IN /\ r.raised = "none"
                /\ \A i \in 1..Len(r.trades) :
                      TradeSide(r.trades[i], order.side_).orderId_ =
                         order.orderId_
                /\ traded + RestingRemaining(r, order.orderId_) =
                      order.initialQuantity_
                /\ Contains(r.orders, order.orderId_) <=>
                      traded < order.initialQuantity_
                /\ Contains(r.orders, order.orderId_) <=>
                      SlotsOf(r.bids, r.asks, order.orderId_) # {}
                /\ \A o \in Resting(bids_) \cup Resting(asks_) :
                      LET filled == FilledOn(r.trades, o.side_, o.orderId_)
                      IN /\ RestingRemaining(r, o.orderId_) =
                               o.initialQuantity_
                                  - (GetFilledQuantity(o) + filled)
                         /\ Contains(r.orders, o.orderId_) <=>
                               filled < o.remainingQuantity_
    /\ \A price \in Price :
          LET first == AddOrder(Book(EmptyMap, EmptyMap, EmptyMap),
                                Order("GoodTillCancel", 1, "Buy", price,
                                      MaxQuantity))
              second == AddOrder(Book(first.bids, first.asks, first.orders),
                                 Order("GoodTillCancel", 2, "Sell", price,
                                       MaxQuantity - 1))
          IN /\ Len(second.trades) = 1
             /\ second.trades[1].bidTrade_.quantity_ = MaxQuantity - 1
             /\ GetOrderInfos(second) =
                   OrderbookLevelInfos(<<LevelInfo(price, 1)>>, << >>)

\* A GoodTillCancel order of a fresh id has traded part of its quantity and
\* rests with what is left.
C18_Witness ==
    /\ Returned("AddOrder")
    /\ call.orderType_ = "GoodTillCancel"
    /\ ~call.known
    /\ trades # << >>
    /\ Contains(orders_, call.orderId_)
    /\ RestingRemaining(Current, call.orderId_) > 0

----------------------------------------------------------------------------
Opposite(side) == IF side = "Buy" THEN "Sell" ELSE "Buy"

\* From book b, submitting order gave trades trds: every trade has the id
\* of order on the record of its side and, on the other record, the id of
\* an order that rested on the other side of b; the two ids differ.
IncomingInEveryTrade(b, order, trds) ==
    \A i \in 1..Len(trds) :
       /\ TradeSide(trds[i], order.side_).orderId_ = order.orderId_
       /\ \E o \in Resting(IF order.side_ = "Buy" THEN b.asks ELSE b.bids) :
             o.orderId_ = TradeSide(trds[i], Opposite(order.side_)).orderId_
       /\ trds[i].bidTrade_.orderId_ # trds[i].askTrade_.orderId_

\* C19: every trade involves the incoming order.  Each trade AddOrder
\* returns, called directly or by MatchOrder, has the submitted order's id
\* on its own side's record and on the other record the id of an order
\* that rested on the opposite side before the call; two orders that were
\* both resting are never matched, and no trade has one id on both records.
C19_EveryTradeInvolvesIncoming ==
    /\ \A order \in Orders :
          IncomingInEveryTrade(Current, order,
                               AddOrder(Current, order).trades)
    /\ \A modify \in Modifies :
          Contains(orders_, modify.orderId_) =>
             LET c == CancelOrder(Current, modify.orderId_)
             IN IncomingInEveryTrade(Book(c.bids, c.asks, c.orders),
                                     ToOrderPointer(modify,
                                         orders_[modify.orderId_].orderType_),
                                     MatchOrder(Current, modify).trades)
    /\ (outcome = "returned" /\ call.op \in {"AddOrder", "MatchOrder"}) =>
          \A i \in 1..Len(trades) :
             /\ call.orderId_ \in {trades[i].bidTrade_.orderId_,
                                   trades[i].askTrade_.orderId_}
             /\ trades[i].bidTrade_.orderId_ # trades[i].askTrade_.orderId_

\* MatchOrder has returned two trades, both with the modified order on its
\* side and two different orders on the other.
C19_Witness ==
    /\ Returned("MatchOrder")
    /\ call.known
    /\ Len(trades) = 2
    /\ \E side \in Side :
          /\ \A i \in 1..Len(trades) :
                TradeSide(trades[i], side).orderId_ = call.orderId_
          /\ TradeSide(trades[1], Opposite(side)).orderId_ #
                TradeSide(trades[2], Opposite(side)).orderId_

----------------------------------------------------------------------------
\* The matching loop, one iteration at a time, for a caller that also passes
\* quantity 0, which the constructors accept.  outcome is "running" while a
\* call is inside MatchOrders; call then also records opposite, the number
\* of orders that rested on the other side when the order went in.  The
\* loop never reads the type of an order, and this caller submits orders of
\* one type.
MaxOrderIdAnyQuantity == 3
MaxAnyQuantity == 1

OrderIdAnyQuantity == 1..MaxOrderIdAnyQuantity

AnyQuantity == 0..MaxAnyQuantity

OrderTypeAnyQuantity == {"GoodTillCancel"}

\* AddOrder up to its call of MatchOrders (lines 189-206), from book b.
Enter(c, b, order) ==
    IF \/ Contains(b.orders, order.orderId_)
       \/ /\ order.orderType_ = "FillAndKill"
          /\ ~CanMatch(b, order.side_, order.price_)
    THEN Finish(c, Rejected(b), "stale")
    ELSE /\ call' = c @@ ("opposite" :>
                    Cardinality(Resting(IF order.side_ = "Buy" THEN b.asks
                                        ELSE b.bids)))
         /\ infos' = NoInfos
         /\ trades' = << >>
         /\ outcome' = "running"
         /\ bids_' = Insert(b, order).bids
         /\ asks_' = Insert(b, order).asks
         /\ orders_' = Insert(b, order).orders

AddOrderEnter ==
    /\ outcome = "returned"
    /\ \E orderType \in OrderTypeAnyQuantity,
          orderId \in OrderIdAnyQuantity,
          side \in Side, price \in Price, quantity \in AnyQuantity :
         Enter(Call("AddOrder", orderType, orderId), Current,
               Order(orderType, orderId, side, price, quantity))

\* MatchOrder up to the call of MatchOrders: CancelOrder, then AddOrder of
\* the order made with the type read through existingOrder.
MatchOrderEnter ==
    /\ outcome = "returned"
    /\ \E orderId \in DOMAIN orders_, side \in Side, price \in Price,
          quantity \in AnyQuantity :
         \E c \in {Call("MatchOrder", orders_[orderId].orderType_, orderId)},
            cancelled \in {CancelOrder(Current, orderId)} :
            \E read \in UseAfterFree(cancelled) :
               IF read = "fault" \/ cancelled.raised # "none"
               THEN Finish(c, cancelled, read)
               ELSE Enter(c, Book(cancelled.bids, cancelled.asks,
                                  cancelled.orders),
                          ToOrderPointer(
                              OrderModify(orderId, side, price, quantity),
                              orders_[orderId].orderType_))

CancelOrderAnyQuantity ==
    /\ outcome = "returned"
    /\ \E orderId \in OrderIdAnyQuantity :
         \E r \in {CancelOrder(Current, orderId)} :
            \E read \in UseAfterFree(r) :
              Finish(Call("CancelOrder", "GoodTillCancel", orderId), r, read)

\* What MatchOrders has in hand: the maps, the index and its local trades.
InProgress == Result(bids_, asks_, orders_, trades, FALSE, "none")

\* One iteration of the inner loop, the loop conditions being true.
MatchOrdersIterate ==
    /\ outcome = "running"
    /\ Crossing(bids_, asks_)
    /\ \E s \in {MatchOrdersStep(InProgress)} :
         \E read \in UseAfterFree(s) :
            IF read = "fault"
            THEN /\ outcome' = "fault"
                 /\ UNCHANGED <<bids_, asks_, orders_, trades, infos, call>>
            ELSE /\ outcome' = IF s.raised = "none" THEN "running"
                               ELSE s.raised
                 /\ bids_' = s.bids
                 /\ asks_' = s.asks
                 /\ orders_' = s.orders
                 /\ trades' = s.trades
                 /\ UNCHANGED <<infos, call>>

\* The loop conditions are false: return trades.
MatchOrdersReturn ==
    /\ outcome = "running"
    /\ ~Crossing(bids_, asks_)
    /\ outcome' = "returned"
    /\ UNCHANGED <<bids_, asks_, orders_, trades, infos, call>>

NextMatching ==
    \/ AddOrderEnter
    \/ MatchOrderEnter
    \/ CancelOrderAnyQuantity
    \/ GetOrderInfosCall
    \/ MatchOrdersIterate
    \/ MatchOrdersReturn

\* The operations run to completion without suspension: a call that is
\* inside MatchOrders keeps executing it.
SpecMatching ==
    /\ Init
    /\ [][NextMatching]_vars
    /\ WF_vars(MatchOrdersIterate)
    /\ WF_vars(MatchOrdersReturn)

\* The book and the trades MatchOrders ends with from what it has in hand.
Completed ==
    LET r == MatchOrders(InProgress)
    IN <<r.bids, r.asks, r.orders, r.trades, r.raised>>

OrdersInBook == Size(Current)

\* C20: matching terminates.  From every book a caller can reach, also with
\* orders of quantity 0, a call that enters the matching loop of AddOrder or
\* MatchOrder leaves it: every iteration adds one trade and removes at least
\* one order, the steps lead to the result of MatchOrders, the overfill
\* error is never raised, and the trades are no more than the orders that
\* rested on the opposite side before the call.
C20_MatchingTerminates ==
    /\ [](outcome # "logic_error")
    /\ [](outcome \in {"running", "returned"} /\ "opposite" \in DOMAIN call
             => Len(trades) <= call.opposite)
    /\ [][(outcome = "running" /\ outcome' # "fault") =>
             /\ Completed' = Completed
             /\ trades' # trades =>
                   /\ Len(trades') = Len(trades) + 1
                   /\ OrdersInBook' < OrdersInBook]_vars
    /\ (outcome = "running") ~> (outcome \in {"returned", "fault"})

\* The loop has made a trade of quantity 0 and goes on to another iteration.
C20_Witness ==
    /\ outcome = "running"
    /\ \E i \in 1..Len(trades) : trades[i].bidTrade_.quantity_ = 0
    /\ Crossing(bids_, asks_)

====
